---- MODULE Spec2Model ----
(***************************************************************************)
(* Model of the todo service (src/app/main.py): the startup connection     *)
(* handshake init_db, the five CRUD request handlers over the collection   *)
(* db.todos, and the /healthz probe.                                       *)
(*                                                                         *)
(* The document store is the environment: it is up or down (storeUp), it   *)
(* hands out fresh ObjectIds (nextId) and it holds the collection (todos). *)
(***************************************************************************)
EXTENDS Integers, Sequences, FiniteSets, TLC

(***************************************************************************)
(* Bounds of the model.                                                    *)
(***************************************************************************)
\* number of ObjectIds the store hands out (number of successful inserts)
MaxIds == 2
\* number of bytes of an ObjectId; its external form has two characters
\* per byte
OidBytes == 1
\* number of requests in flight together in the concurrent specification
MaxRequests == 4

\* task texts a request can carry; "" is the empty text
Tasks == {"", "a", "b"}

(***************************************************************************)
(* Program constants.                                                      *)
(***************************************************************************)
\* retries = 10
MaxRetries == 10
\* time.sleep(5)
SleepUnits == 5

(***************************************************************************)
(* ObjectId and its external string form.  An ObjectId of full length is   *)
(* modelled by a natural number; str(oid) is its fixed-width lower-case    *)
(* hex text, a sequence of characters.  ObjectId(s) takes a text of that   *)
(* width which bytes.fromhex reads: pairs of hex digits, a..f in either    *)
(* case, with white space skipped before a pair; on any other string it    *)
(* raises InvalidId.  A text holding white space yields an ObjectId of     *)
(* fewer bytes, modelled by a negative number: it equals no id the driver  *)
(* generates.                                                              *)
(***************************************************************************)
HexChars == <<"0", "1", "2", "3", "4", "5", "6", "7",
              "8", "9", "a", "b", "c", "d", "e", "f">>

\* the same digits in upper case
HexUpper == <<"0", "1", "2", "3", "4", "5", "6", "7",
              "8", "9", "A", "B", "C", "D", "E", "F">>

\* the characters bytes.fromhex accepts
HexSet == {HexChars[i] : i \in 1..16} \cup {HexUpper[i] : i \in 1..16}

HexVal(c) == (CHOOSE i \in 1..16 : HexChars[i] = c \/ HexUpper[i] = c) - 1

\* the text s with its digits a..f in upper case
Upper(s) == [i \in 1..Len(s) |-> HexUpper[HexVal(s[i]) + 1]]

RECURSIVE ToHex(_, _)
ToHex(n, len) ==
    IF len = 0 THEN <<>>
    ELSE Append(ToHex(n \div 16, len - 1), HexChars[(n % 16) + 1])

\* str(result.inserted_id), str(todo['_id'])
OidStr(oid) == ToHex(oid, 2 * OidBytes)

\* the ASCII white space bytes.fromhex skips: blank, tab, line feed,
\* carriage return, form feed and vertical tab
Blanks == {" ", "\t", "\n", "\r", "\f", ""}

\* bytes.fromhex(s) returns: white space is skipped before a pair of digits
\* only, and every other character is a hex digit
RECURSIVE FromHexOk(_)
FromHexOk(s) ==
    IF s = <<>> THEN TRUE
    ELSE IF s[1] \in Blanks THEN FromHexOk(Tail(s))
    ELSE /\ Len(s) >= 2
         /\ s[1] \in HexSet
         /\ s[2] \in HexSet
         /\ FromHexOk(SubSeq(s, 3, Len(s)))

\* ObjectId(todo_id) raises no InvalidId: len(oid) == 24 and
\* bytes.fromhex(oid) returns
IsValidOid(s) == Len(s) = 2 * OidBytes /\ FromHexOk(s)

\* the hex digits of a text
Digits(s) == SelectSeq(s, LAMBDA c : c \notin Blanks)

\* an accepted text that yields fewer bytes than an ObjectId has
ShortOid(s) == IsValidOid(s) /\ Len(Digits(s)) < Len(s)

RECURSIVE FromHex(_)
FromHex(s) ==
    IF s = <<>> THEN 0
    ELSE 16 * FromHex(SubSeq(s, 1, Len(s) - 1)) + HexVal(s[Len(s)])

\* ObjectId(todo_id), for a valid todo_id
ObjectId(s) ==
    IF ShortOid(s) THEN 0 - (1 + FromHex(Digits(s))) ELSE FromHex(s)

\* the first ObjectId the driver generates: its text holds a letter
FirstId == HexVal("a")

(***************************************************************************)
(* Request bodies (request.json): any JSON value.                          *)
(*   kind "none":     an absent body (None);                               *)
(*   kind "object":   a JSON object holding any of the keys task,          *)
(*                    completed and one unrecognised key;                  *)
(*   kind "sequence": a JSON array or string; hasTask, hasCompleted and    *)
(*                    hasOther tell whether it contains "task",            *)
(*                    "completed", something else; [] and "" contain       *)
(*                    nothing;                                             *)
(*   kind "scalar":   true, false or a number; hasOther tells whether it   *)
(*                    is true or non-zero.                                 *)
(***************************************************************************)
NoData ==
    [kind |-> "none", hasTask |-> FALSE, task |-> "",
     hasCompleted |-> FALSE, completed |-> FALSE, hasOther |-> FALSE]

Bodies ==
    {NoData} \cup
    {[kind |-> "object", hasTask |-> ht, task |-> t,
      hasCompleted |-> hc, completed |-> c, hasOther |-> ho] :
        ht \in BOOLEAN, t \in Tasks, hc \in BOOLEAN, c \in BOOLEAN,
        ho \in BOOLEAN} \cup
    {[kind |-> "sequence", hasTask |-> ht, task |-> "",
      hasCompleted |-> hc, completed |-> FALSE, hasOther |-> ho] :
        ht \in BOOLEAN, hc \in BOOLEAN, ho \in BOOLEAN} \cup
    {[kind |-> "scalar", hasTask |-> FALSE, task |-> "",
      hasCompleted |-> FALSE, completed |-> FALSE, hasOther |-> ho] :
        ho \in BOOLEAN}

\* one body per JSON value: an absent key carries no value; the unrecognised
\* key is sent alone (next to task or completed it changes nothing); a
\* sequence holds one element at most
RequestBodies ==
    {d \in Bodies :
        /\ (~d.hasTask => d.task = "")
        /\ (~d.hasCompleted => d.completed = FALSE)
        /\ (d.hasOther => ~d.hasTask /\ ~d.hasCompleted)
        /\ (d.kind = "sequence" => ~(d.hasTask /\ d.hasCompleted))}

\* Python truth value of request.json: None, {}, [], "", false and 0 are
\* false
Truthy(data) ==
    /\ data.kind # "none"
    /\ data.hasTask \/ data.hasCompleted \/ data.hasOther

\* whether the membership test  key in data  is defined: on a scalar it
\* raises TypeError
Container(data) == data.kind \in {"object", "sequence"}

\* whether the subscription  data[key]  with a string key is defined: on a
\* list or a string it raises TypeError
Mapping(data) == data.kind = "object"

\* a path parameter that is no ObjectId text
BadTid == <<"z">>

NoTid == <<>>

\* the text of the first ObjectId, with its letters in upper case
AliasTid == Upper(OidStr(FirstId))

\* the text of the first ObjectId, with its last byte left blank
BlankTid ==
    [i \in 1..(2 * OidBytes) |->
        IF i > 2 * OidBytes - 2 THEN " " ELSE OidStr(FirstId)[i]]

\* the todo_id path parameters of the requests
Tids ==
    {OidStr(i) : i \in FirstId..(FirstId + MaxIds - 1)}
        \cup {AliasTid, BlankTid, BadTid}

(***************************************************************************)
(* The store driver's single operations on the collection.  The collection *)
(* is a function from ObjectId to the stored document [task, completed].   *)
(***************************************************************************)
EmptyColl == [i \in {} |-> [task |-> "", completed |-> FALSE]]

Remove(coll, oid) == [i \in (DOMAIN coll) \ {oid} |-> coll[i]]

\* todos.insert_one(doc): the driver assigns the next fresh ObjectId
insert_one(coll, nid, doc) ==
    [coll |-> [i \in (DOMAIN coll) \cup {nid} |->
                  IF i = nid THEN doc ELSE coll[i]],
     nid |-> nid + 1,
     inserted_id |-> nid]

\* the document as the handlers return it: '_id' replaced by 'id' = str(_id)
Json(coll, oid) ==
    [id |-> OidStr(oid), task |-> coll[oid].task,
     completed |-> coll[oid].completed]

\* todos.find_one({'_id': oid}): the document, or nothing
find_one(coll, oid) ==
    IF oid \in DOMAIN coll THEN <<Json(coll, oid)>> ELSE <<>>

\* list(todos.find({})) on a quiescent collection: the documents of
\* positions from..(nid - 1) in natural (insertion) order
RECURSIVE find(_, _, _)
find(coll, from, nid) ==
    IF from >= nid THEN <<>>
    ELSE find_one(coll, from) \o find(coll, from + 1, nid)

\* the dict update_fields built from the body
update_fields(data) ==
    [hasTask |-> data.hasTask, task |-> data.task,
     hasCompleted |-> data.hasCompleted, completed |-> data.completed]

\* a replacement of the document instead of a merge
SetFieldsReplacing(doc, fields) ==
    [task |-> IF fields.hasTask THEN fields.task ELSE "",
     completed |-> IF fields.hasCompleted THEN fields.completed ELSE FALSE]

\* the document after {'$set': fields}
SetFields(doc, fields) ==
    [task |-> IF fields.hasTask THEN fields.task ELSE doc.task,
     completed |-> IF fields.hasCompleted THEN fields.completed
                   ELSE doc.completed]

\* an update that reports the matched documents as modified
update_one_matched(coll, oid, fields) ==
    IF oid \notin DOMAIN coll
    THEN [coll |-> coll, matched_count |-> 0, modified_count |-> 0]
    ELSE [coll |-> [coll EXCEPT ![oid] = SetFields(coll[oid], fields)],
          matched_count |-> 1,
          modified_count |-> 1]

\* todos.update_one({'_id': oid}, {'$set': fields}): modified_count counts
\* the documents whose content the update changed
update_one(coll, oid, fields) ==
    IF oid \notin DOMAIN coll
    THEN [coll |-> coll, matched_count |-> 0, modified_count |-> 0]
    ELSE [coll |-> [coll EXCEPT ![oid] = SetFields(coll[oid], fields)],
          matched_count |-> 1,
          modified_count |->
              IF SetFields(coll[oid], fields) = coll[oid] THEN 0 ELSE 1]

\* a delete that reports a deletion whether or not a document matched
delete_one_unchecked(coll, oid) ==
    [coll |-> Remove(coll, oid), deleted_count |-> 1]

\* todos.delete_one({'_id': oid})
delete_one(coll, oid) ==
    IF oid \in DOMAIN coll
    THEN [coll |-> Remove(coll, oid), deleted_count |-> 1]
    ELSE [coll |-> coll, deleted_count |-> 0]

(***************************************************************************)
(* The handlers as functions of the request and of the store: the status,  *)
(* the JSON body (docs: the documents in it, msg: its error or message     *)
(* text), the collection and id generator they leave, and the number of    *)
(* store operations they issued.  up = FALSE: the store operation raises.  *)
(***************************************************************************)
Result(status, docs, msg, coll, nid, ops) ==
    [status |-> status, docs |-> docs, msg |-> msg,
     coll |-> coll, nid |-> nid, ops |-> ops]

\* an exception raised outside the handler's try block: the framework
\* answers 500; no store operation was issued
Unhandled(coll, nid) == Result(500, <<>>, "TypeError", coll, nid, 0)

\* if not data or 'task' not in data: the branch answering 400
create_invalid(data) == ~Truthy(data) \/ (Container(data) /\ ~data.hasTask)

\* 'task' not in data, or data['task'], raises TypeError
create_raises(data) ==
    /\ Truthy(data)
    /\ ~Container(data) \/ (data.hasTask /\ ~Mapping(data))

\* a create that stores the completed flag the body carries
create_todo_result_trusting(data, coll, nid, up) ==
    IF create_invalid(data)
    THEN Result(400, <<>>, "Missing \"task\" field", coll, nid, 0)
    ELSE IF create_raises(data)
    THEN Unhandled(coll, nid)
    ELSE IF ~up
    THEN Result(500, <<>>, "store error", coll, nid, 1)
    ELSE LET r == insert_one(coll, nid,
                             [task |-> data.task,
                              completed |-> data.completed])
         IN  Result(201,
                    <<[id |-> OidStr(r.inserted_id), task |-> data.task,
                       completed |-> FALSE]>>,
                    "", r.coll, r.nid, 1)

create_todo_result(data, coll, nid, up) ==
    IF create_invalid(data)
    THEN Result(400, <<>>, "Missing \"task\" field", coll, nid, 0)
    ELSE IF create_raises(data)
    THEN Unhandled(coll, nid)
    ELSE IF ~up
    THEN Result(500, <<>>, "store error", coll, nid, 1)
    ELSE LET r == insert_one(coll, nid,
                             [task |-> data.task, completed |-> FALSE])
         IN  Result(201,
                    <<[id |-> OidStr(r.inserted_id), task |-> data.task,
                       completed |-> FALSE]>>,
                    "", r.coll, r.nid, 1)

get_all_todos_result(coll, nid, up) ==
    IF ~up
    THEN Result(500, <<>>, "store error", coll, nid, 1)
    ELSE Result(200, find(coll, FirstId, nid), "", coll, nid, 1)

get_todo_result(tid, coll, nid, up) ==
    IF ~IsValidOid(tid)
    THEN Result(500, <<>>, "invalid id", coll, nid, 0)
    ELSE IF ~up
    THEN Result(500, <<>>, "store error", coll, nid, 1)
    ELSE LET todo == find_one(coll, ObjectId(tid))
         IN  IF todo # <<>>
             THEN Result(200, todo, "", coll, nid, 1)
             ELSE Result(404, <<>>, "To-do item not found", coll, nid, 1)

\* 'task' in data, data['task'], 'completed' in data or data['completed']
\* raises TypeError
update_raises(data) ==
    /\ Truthy(data)
    /\ ~Container(data) \/ (~Mapping(data) /\ (data.hasTask \/ data.hasCompleted))

update_todo_result(tid, data, coll, nid, up) ==
    IF ~Truthy(data)
    THEN Result(400, <<>>, "No data provided for update", coll, nid, 0)
    ELSE IF update_raises(data)
    THEN Unhandled(coll, nid)
    ELSE IF ~data.hasTask /\ ~data.hasCompleted
    THEN Result(400, <<>>, "No valid fields to update", coll, nid, 0)
    ELSE IF ~IsValidOid(tid)
    THEN Result(500, <<>>, "invalid id", coll, nid, 0)
    ELSE IF ~up
    THEN Result(500, <<>>, "store error", coll, nid, 1)
    ELSE LET r == update_one(coll, ObjectId(tid), update_fields(data))
         IN  IF r.modified_count = 0
             THEN Result(404, <<>>,
                         "To-do item not found or no changes made",
                         r.coll, nid, 1)
             ELSE Result(200, <<>>, "To-do item updated successfully",
                         r.coll, nid, 1)

delete_todo_result(tid, coll, nid, up) ==
    IF ~IsValidOid(tid)
    THEN Result(500, <<>>, "invalid id", coll, nid, 0)
    ELSE IF ~up
    THEN Result(500, <<>>, "store error", coll, nid, 1)
    ELSE LET r == delete_one(coll, ObjectId(tid))
         IN  IF r.deleted_count = 0
             THEN Result(404, <<>>, "To-do item not found", r.coll, nid, 1)
             ELSE Result(200, <<>>, "To-do item deleted successfully",
                         r.coll, nid, 1)

\* a probe that counts the documents of the collection
health_check_result_counting(coll, nid) ==
    Result(IF coll = EmptyColl THEN 200 ELSE 500, <<>>, "ok", coll, nid, 1)

health_check_result(coll, nid) ==
    Result(200, <<>>, "ok", coll, nid, 0)

(***************************************************************************)
(* State.                                                                  *)
(***************************************************************************)
VARIABLES
    phase,      \* "init": in init_db; "serving": app.run; "aborted": raised
    retries,    \* init_db's local retries
    attempts,   \* number of connection attempts made so far
    waited,     \* time-units slept so far by init_db
    storeUp,    \* whether the store answers (ping and operations succeed)
    todos,      \* the collection db.todos
    nextId,     \* the next ObjectId the driver generates
    resp,       \* the request handled last and its response
    pristine,   \* str(id) -> task, for the todos not updated since created
    deleted,    \* str(id) of the todos whose DELETE was answered 200
    reqs        \* the requests handled concurrently, one thread each

vars == <<phase, retries, attempts, waited, storeUp, todos, nextId, resp,
          pristine, deleted, reqs>>

store == <<todos, nextId>>
startup == <<phase, retries, attempts, waited>>

NoResp ==
    [op |-> "none", tid |-> NoTid, data |-> NoData, status |-> 0,
     docs |-> <<>>, msg |-> "", ops |-> 0]

Response(op, tid, data, r) ==
    [op |-> op, tid |-> tid, data |-> data, status |-> r.status,
     docs |-> r.docs, msg |-> r.msg, ops |-> r.ops]

NoTasks == [t \in {} |-> ""]

Init ==
    /\ phase = "init"
    /\ retries = MaxRetries
    /\ attempts = 0
    /\ waited = 0
    /\ storeUp \in BOOLEAN
    /\ todos = EmptyColl
    /\ nextId = FirstId
    /\ resp = NoResp
    /\ pristine = NoTasks
    /\ deleted = {}
    /\ reqs = <<>>

(***************************************************************************)
(* The environment: the store becomes unreachable, or reachable again.     *)
(***************************************************************************)
StoreChange ==
    /\ storeUp' = ~storeUp
    /\ UNCHANGED <<startup, store, resp, pristine, deleted, reqs>>

(***************************************************************************)
(* init_db: one pass of the retry loop, and the raise after it.            *)
(***************************************************************************)
\* client.admin.command('ping') succeeded: return client
init_db_connected ==
    /\ phase = "init"
    /\ retries > 0
    /\ storeUp
    /\ attempts' = attempts + 1
    /\ phase' = "serving"
    /\ UNCHANGED <<retries, waited, storeUp, store, resp, pristine, deleted, reqs>>

\* a loop that sleeps and forgets retries -= 1
init_db_retry_forever ==
    /\ phase = "init"
    /\ retries > 0
    /\ ~storeUp
    /\ attempts' = attempts + 1
    /\ waited' = waited + SleepUnits
    /\ UNCHANGED <<phase, retries, storeUp, store, resp, pristine, deleted, reqs>>

\* except Exception: retries -= 1; time.sleep(5)
init_db_retry ==
    /\ phase = "init"
    /\ retries > 0
    /\ ~storeUp
    /\ attempts' = attempts + 1
    /\ retries' = retries - 1
    /\ waited' = waited + SleepUnits
    /\ UNCHANGED <<phase, storeUp, store, resp, pristine, deleted, reqs>>

\* the loop ended: raise Exception(...), the module import fails
init_db_raise ==
    /\ phase = "init"
    /\ retries = 0
    /\ phase' = "aborted"
    /\ UNCHANGED <<retries, attempts, waited, storeUp, store, resp, pristine,
                   deleted, reqs>>

init_db == init_db_connected \/ init_db_retry \/ init_db_raise

(***************************************************************************)
(* The request handlers.  The routes are served by app.run, which the      *)
(* module reaches only after mongo_client = init_db() returned.            *)
(***************************************************************************)
\* routes served while init_db is still trying
ServingEarly == phase # "aborted"

Serving == phase = "serving"

\* str(ObjectId(tid)): the id a path parameter denotes, in the form the
\* responses carry
IdOf(tid) ==
    IF IsValidOid(tid)
    THEN ToHex(FromHex(Digits(tid)), Len(Digits(tid)))
    ELSE tid

\* whether the store call made with ObjectId(tid) returns: never while the
\* store is unreachable; on an ObjectId of too few bytes the driver and the
\* store may raise as well
StoreAnswers(tid) ==
    {up \in BOOLEAN : /\ up => storeUp
                      /\ ~up => (~storeUp \/ ShortOid(tid))}

Without(f, k) == [x \in (DOMAIN f) \ {k} |-> f[x]]

With(f, k, v) == [x \in (DOMAIN f) \cup {k} |-> IF x = k THEN v ELSE f[x]]

create_todo(data) ==
    LET r == create_todo_result(data, todos, nextId, storeUp) IN
    /\ Serving
    /\ todos' = r.coll
    /\ nextId' = r.nid
    /\ resp' = Response("create", NoTid, data, r)
    /\ pristine' = IF r.status = 201
                   THEN With(pristine, r.docs[1].id, data.task)
                   ELSE pristine
    /\ UNCHANGED <<startup, storeUp, deleted, reqs>>

get_all_todos ==
    LET r == get_all_todos_result(todos, nextId, storeUp) IN
    /\ Serving
    /\ resp' = Response("list", NoTid, NoData, r)
    /\ UNCHANGED <<startup, storeUp, store, pristine, deleted, reqs>>

get_todo(tid) ==
    \E up \in StoreAnswers(tid) :
    LET r == get_todo_result(tid, todos, nextId, up) IN
    /\ Serving
    /\ resp' = Response("get", tid, NoData, r)
    /\ UNCHANGED <<startup, storeUp, store, pristine, deleted, reqs>>

update_todo(tid, data) ==
    \E up \in StoreAnswers(tid) :
    LET r == update_todo_result(tid, data, todos, nextId, up) IN
    /\ Serving
    /\ todos' = r.coll
    /\ resp' = Response("update", tid, data, r)
    /\ pristine' = IF r.status = 200 THEN Without(pristine, IdOf(tid))
                   ELSE pristine
    /\ UNCHANGED <<startup, storeUp, nextId, deleted, reqs>>

delete_todo(tid) ==
    \E up \in StoreAnswers(tid) :
    LET r == delete_todo_result(tid, todos, nextId, up) IN
    /\ Serving
    /\ todos' = r.coll
    /\ resp' = Response("delete", tid, NoData, r)
    /\ pristine' = IF r.status = 200 THEN Without(pristine, IdOf(tid))
                   ELSE pristine
    /\ deleted' = IF r.status = 200 THEN deleted \cup {IdOf(tid)}
                  ELSE deleted
    /\ UNCHANGED <<startup, storeUp, nextId, reqs>>

health_check ==
    LET r == health_check_result(todos, nextId) IN
    /\ Serving
    /\ resp' = Response("healthz", NoTid, NoData, r)
    /\ UNCHANGED <<startup, storeUp, store, pristine, deleted, reqs>>

(***************************************************************************)
(* The process from its start: the module runs init_db, then serves.  The  *)
(* requests of this specification carry one body of each kind.             *)
(***************************************************************************)
\* the bound of the specifications: they follow the process up to MaxIds
\* inserts.  The program has no such limit; a create that would insert one
\* more is left out of them, every create that inserts nothing stays
WithinMaxIds(data) ==
    \/ create_todo_result(data, todos, nextId, storeUp).nid = nextId
    \/ nextId < FirstId + MaxIds

StartupBodies ==
    {d \in RequestBodies :
        /\ d.kind = "object" => (d.hasTask \/ d.hasCompleted)
        /\ d.hasTask => (d.task = "a" /\ ~d.hasCompleted)
        /\ d.hasCompleted => d.completed}

StartupTids == {OidStr(FirstId), AliasTid, BlankTid, BadTid}

StartupNext ==
    \/ StoreChange
    \/ init_db_connected
    \/ init_db_retry
    \/ init_db_raise
    \/ \E data \in StartupBodies : WithinMaxIds(data) /\ create_todo(data)
    \/ get_all_todos
    \/ \E tid \in StartupTids : get_todo(tid)
    \/ \E tid \in StartupTids, data \in StartupBodies : update_todo(tid, data)
    \/ \E tid \in StartupTids : delete_todo(tid)
    \/ health_check

StartupSpec == Init /\ [][StartupNext]_vars

\* init_db runs alone on the main thread: every pass of its loop ends
StartupFair == StartupSpec /\ WF_vars(init_db)

(***************************************************************************)
(* The serving process: the state once the module is loaded, init_db       *)
(* having returned the client, and the requests handled one at a time:     *)
(* the server takes a request when the response of the last one is sent.   *)
(* The store fails and recovers at any moment.                             *)
(***************************************************************************)
\* no response is waiting to be sent
Idle == resp = NoResp

\* the server sends the response the handler returned
Reply ==
    /\ Serving
    /\ ~Idle
    /\ resp' = NoResp
    /\ UNCHANGED <<startup, storeUp, store, pristine, deleted, reqs>>

ServingInit ==
    /\ phase = "serving"
    /\ retries = MaxRetries
    /\ attempts = 1
    /\ waited = 0
    /\ storeUp = TRUE
    /\ todos = EmptyColl
    /\ nextId = FirstId
    /\ resp = NoResp
    /\ pristine = NoTasks
    /\ deleted = {}
    /\ reqs = <<>>

Next ==
    \/ StoreChange
    \/ Idle /\ \E data \in RequestBodies :
                  WithinMaxIds(data) /\ create_todo(data)
    \/ Idle /\ get_all_todos
    \/ Idle /\ \E tid \in Tids : get_todo(tid)
    \/ Idle /\ \E tid \in Tids, data \in RequestBodies : update_todo(tid, data)
    \/ Idle /\ \E tid \in Tids : delete_todo(tid)
    \/ Idle /\ health_check
    \/ Reply

Spec == ServingInit /\ [][Next]_vars

(***************************************************************************)
(* The serving process under concurrent requests.  app.run serves every    *)
(* request on a thread of its own; the handlers share db.todos and nothing *)
(* else.  A handler's store call is one step of the store.  The store      *)
(* returns the documents of the cursor of get_all_todos in batches: all of *)
(* them at once, or in parts, other threads' calls falling in between; it  *)
(* gives no point-in-time view across the batches of a cursor.  A request  *)
(* is                                                                      *)
(*   pc: "run" before its store call, "scan" while its cursor is open,     *)
(*       "done" once answered;                                             *)
(*   pos, acc: the cursor's position and the documents read so far;        *)
(*   ops: the number of store calls it issued.                             *)
(* The requests of a batch are all received before the first store call:   *)
(* receiving changes nothing the handlers share, so every interleaving of  *)
(* the store calls is covered.  The store stays reachable here; Spec       *)
(* covers the store's failures.                                            *)
(***************************************************************************)
Request(op, tid, data) ==
    [op |-> op, tid |-> tid, data |-> data, pc |-> "run", pos |-> FirstId,
     acc |-> <<>>, ops |-> 0, status |-> 0, docs |-> <<>>]

Answered(q, r) ==
    [q EXCEPT !.pc = "done", !.ops = r.ops, !.status = r.status,
              !.docs = r.docs]

\* the bodies of the concurrent requests: {task: t}, {completed: true}
\* and the number 5
TaskBody(t) ==
    [kind |-> "object", hasTask |-> TRUE, task |-> t,
     hasCompleted |-> FALSE, completed |-> FALSE, hasOther |-> FALSE]

CompletedBody(c) ==
    [kind |-> "object", hasTask |-> FALSE, task |-> "",
     hasCompleted |-> TRUE, completed |-> c, hasOther |-> FALSE]

ScalarBody ==
    [kind |-> "scalar", hasTask |-> FALSE, task |-> "",
     hasCompleted |-> FALSE, completed |-> FALSE, hasOther |-> TRUE]

ConcTids == {OidStr(FirstId)}

\* the requests that can be in flight, in a fixed order
ConcRequests ==
    << Request("create", NoTid, TaskBody("a")),
       Request("list", NoTid, NoData),
       Request("get", OidStr(FirstId), NoData),
       Request("update", OidStr(FirstId), TaskBody("")),
       Request("update", OidStr(FirstId), TaskBody("a")),
       Request("update", OidStr(FirstId), CompletedBody(TRUE)),
       Request("delete", OidStr(FirstId), NoData),
       Request("create", NoTid, NoData),
       Request("update", OidStr(FirstId), ScalarBody),
       Request("update", BadTid, TaskBody("a")) >>

\* the batches of requests in flight together; the threads being
\* interchangeable, a batch is listed in the order of ConcRequests
Batches ==
    {[i \in 1..MaxRequests |-> ConcRequests[b[i]]] :
        b \in {c \in [1..MaxRequests -> DOMAIN ConcRequests] :
                  \A i, j \in 1..MaxRequests : i < j => c[i] <= c[j]}}

\* the collection after one create: a todo "a", not completed
OneTodo ==
    insert_one(EmptyColl, FirstId, [task |-> "a", completed |-> FALSE])

\* the collection after a second create: a todo "b" next to it
TwoTodos ==
    insert_one(OneTodo.coll, OneTodo.nid, [task |-> "b", completed |-> FALSE])

\* the serving process holding two todos, a batch of requests received and
\* their handlers not yet at their store calls
ConcInit ==
    /\ phase = "serving"
    /\ retries = MaxRetries
    /\ attempts = 1
    /\ waited = 0
    /\ storeUp = TRUE
    /\ todos = TwoTodos.coll
    /\ nextId = TwoTodos.nid
    /\ resp = NoResp
    /\ pristine = NoTasks
    /\ deleted = {}
    /\ reqs \in Batches

quiet == <<startup, resp, pristine, deleted>>

Running(i, op) == reqs[i].op = op /\ reqs[i].pc = "run"

create_todo_run(i) ==
    LET q == reqs[i]
        r == create_todo_result(q.data, todos, nextId, storeUp) IN
    /\ Running(i, "create")
    /\ todos' = r.coll
    /\ nextId' = r.nid
    /\ reqs' = [reqs EXCEPT ![i] = Answered(q, r)]
    /\ UNCHANGED <<quiet, storeUp>>

get_todo_run(i) ==
    \E up \in StoreAnswers(reqs[i].tid) :
    LET q == reqs[i]
        r == get_todo_result(q.tid, todos, nextId, up) IN
    /\ Running(i, "get")
    /\ reqs' = [reqs EXCEPT ![i] = Answered(q, r)]
    /\ UNCHANGED <<quiet, storeUp, store>>

update_todo_run(i) ==
    \E up \in StoreAnswers(reqs[i].tid) :
    LET q == reqs[i]
        r == update_todo_result(q.tid, q.data, todos, nextId, up) IN
    /\ Running(i, "update")
    /\ todos' = r.coll
    /\ reqs' = [reqs EXCEPT ![i] = Answered(q, r)]
    /\ UNCHANGED <<quiet, storeUp, nextId>>

\* a delete that looks the document up first and removes it afterwards
delete_todo_run_racy(i) ==
    LET q == reqs[i] IN
    \/ /\ Running(i, "delete")
       /\ storeUp
       /\ reqs' = [reqs EXCEPT ![i].pc = "scan",
                               ![i].acc = find_one(todos, ObjectId(q.tid))]
       /\ UNCHANGED <<quiet, storeUp, store>>
    \/ /\ q.op = "delete" /\ q.pc = "scan"
       /\ todos' = delete_one(todos, ObjectId(q.tid)).coll
       /\ reqs' = [reqs EXCEPT ![i].pc = "done", ![i].acc = <<>>,
                               ![i].ops = 2,
                               ![i].status =
                                   IF q.acc = <<>> THEN 404 ELSE 200]
       /\ UNCHANGED <<quiet, storeUp, nextId>>

delete_todo_run(i) ==
    \E up \in StoreAnswers(reqs[i].tid) :
    LET q == reqs[i]
        r == delete_todo_result(q.tid, todos, nextId, up) IN
    /\ Running(i, "delete")
    /\ todos' = r.coll
    /\ reqs' = [reqs EXCEPT ![i] = Answered(q, r)]
    /\ UNCHANGED <<quiet, storeUp, nextId>>

\* the positions a batch of the cursor can reach from position pos: it
\* holds a document at least, or it reaches the end of the collection
BatchEnds(pos) == {to \in pos..nextId : to > pos \/ to = nextId}

\* the request after the cursor returned the documents up to position to;
\* a batch that reaches the end of the collection exhausts the cursor, and
\* the list is returned
Batch(q, to) ==
    LET acc == q.acc \o find(todos, q.pos, to) IN
    IF to >= nextId
    THEN [q EXCEPT !.pc = "done", !.status = 200, !.docs = acc,
                   !.acc = <<>>, !.pos = FirstId, !.ops = 1]
    ELSE [q EXCEPT !.pc = "scan", !.pos = to, !.acc = acc, !.ops = 1]

\* the request after the store call raised
Failed(q) ==
    [q EXCEPT !.pc = "done", !.status = 500, !.acc = <<>>, !.pos = FirstId,
              !.ops = 1]

\* list(todos.find({})): the one store call of the request.  The store
\* returns the first batch of the cursor: the whole collection, or a part
\* of it
get_all_todos_open(i) ==
    LET q == reqs[i] IN
    /\ Running(i, "list")
    /\ \E to \in BatchEnds(q.pos) :
          reqs' = [reqs EXCEPT ![i] = IF storeUp THEN Batch(q, to)
                                      ELSE Failed(q)]
    /\ UNCHANGED <<quiet, storeUp, store>>

\* list(cursor) goes on: the store returns the next batch of the cursor;
\* a store failure ends the request with 500
get_all_todos_fetch(i) ==
    LET q == reqs[i] IN
    /\ q.op = "list" /\ q.pc = "scan"
    /\ \E to \in BatchEnds(q.pos) :
          reqs' = [reqs EXCEPT ![i] = IF storeUp THEN Batch(q, to)
                                      ELSE Failed(q)]
    /\ UNCHANGED <<quiet, storeUp, store>>

ConcNext ==
    \/ \E i \in DOMAIN reqs : create_todo_run(i)
    \/ \E i \in DOMAIN reqs : get_todo_run(i)
    \/ \E i \in DOMAIN reqs : update_todo_run(i)
    \/ \E i \in DOMAIN reqs : delete_todo_run(i)
    \/ \E i \in DOMAIN reqs : get_all_todos_open(i)
    \/ \E i \in DOMAIN reqs : get_all_todos_fetch(i)

ConcSpec == ConcInit /\ [][ConcNext]_vars

(***************************************************************************)
(* Helpers of the properties.                                              *)
(***************************************************************************)
\* the stored document of an id text, as a GET returns it
Stored(tid) ==
    [id |-> IdOf(tid), task |-> todos[ObjectId(tid)].task,
     completed |-> todos[ObjectId(tid)].completed]

\* the id texts of the todos in the collection
StoredIds == {OidStr(oid) : oid \in DOMAIN todos}

\* a step in which update_todo, or delete_todo, handled a request
UpdateStep == resp'.op = "update" /\ update_todo(resp'.tid, resp'.data)
DeleteStep == resp'.op = "delete" /\ delete_todo(resp'.tid)

\* a body that is absent or empty
AbsentOrEmpty(d) ==
    d.kind = "none" \/ (~d.hasTask /\ ~d.hasCompleted /\ ~d.hasOther)

\* a body that holds the field task, the field completed
HoldsTask(d) == d.kind = "object" /\ d.hasTask
HoldsCompleted(d) == d.kind = "object" /\ d.hasCompleted

(***************************************************************************)
(* C1: init_db always terminates after at most 10 connection attempts: it  *)
(* returns on the first attempt whose ping succeeds and makes no further   *)
(* attempt; after each failed attempt it waits 5 time-units; when all 10   *)
(* attempts failed it aborts startup, having waited at most 50 time-units. *)
(***************************************************************************)
C1_InitDbBoundedRetry ==
    /\ <>(phase # "init")
    /\ [](attempts <= 10 /\ waited <= 50)
    /\ [](phase = "serving" => waited = 5 * (attempts - 1))
    /\ [](phase # "serving" => waited = 5 * attempts)
    /\ [](phase = "aborted" => attempts = 10)
    /\ [][phase = "init" /\ attempts' # attempts =>
            /\ attempts' = attempts + 1
            /\ (storeUp => phase' = "serving" /\ waited' = waited)
            /\ (~storeUp => phase' = "init" /\ waited' = waited + 5)]_vars
    /\ [][phase # "init" =>
            phase' = phase /\ attempts' = attempts /\ waited' = waited]_vars
    /\ ((phase = "init" /\ attempts = 10) ~> (phase = "aborted"))

\* init_db returned the client on its fourth attempt, after three failures
C1_Witness == phase = "serving" /\ attempts = 4 /\ waited = 15

(***************************************************************************)
(* C2: no handler handles a request unless init_db returned the client:    *)
(* a response exists and the collection is touched only in the serving     *)
(* phase, which only a successful attempt enters, and after the fatal      *)
(* abort nothing is ever handled.                                          *)
(***************************************************************************)
C2_NoTrafficWithoutStore ==
    /\ [](phase # "serving" =>
            resp = NoResp /\ todos = EmptyColl /\ nextId = FirstId)
    /\ [][resp' # resp \/ todos' # todos \/ nextId' # nextId =>
            phase = "serving" /\ attempts >= 1]_vars
    /\ [][phase # "serving" /\ phase' = "serving" =>
            phase = "init" /\ storeUp /\ attempts' = attempts + 1]_vars
    /\ [][phase = "aborted" => phase' = "aborted" /\ resp' = NoResp]_vars

\* a request handled by a process that came up after two failed attempts
C2_Witness == resp.op = "create" /\ resp.status = 201 /\ waited = 10

(***************************************************************************)
(* C3: a create carrying a task and meeting no store failure is answered   *)
(* 201 with completed = false and a non-empty id that no other todo of the *)
(* collection has; a GET of that id before any update or delete of it is   *)
(* answered 200 with the same id, the same task and completed = false.     *)
(***************************************************************************)
C3_CreateThenGet ==
    /\ (resp.op = "create" /\ resp.data.kind = "object" /\ resp.data.hasTask
            /\ resp.status # 500) =>
          /\ resp.status = 201
          /\ Len(resp.docs) = 1
          /\ resp.docs[1].completed = FALSE
          /\ resp.docs[1].task = resp.data.task
          /\ resp.docs[1].id # <<>>
          /\ resp.docs[1].id \notin deleted
          /\ Cardinality({oid \in DOMAIN todos :
                             OidStr(oid) = resp.docs[1].id}) = 1
          /\ Cardinality(StoredIds) = Cardinality(DOMAIN todos)
    /\ (resp.op = "get" /\ IdOf(resp.tid) \in DOMAIN pristine
            /\ resp.status # 500) =>
          /\ resp.status = 200
          /\ resp.docs = <<[id |-> IdOf(resp.tid),
                            task |-> pristine[IdOf(resp.tid)],
                            completed |-> FALSE]>>

\* a GET of the second todo created, the first one updated meanwhile
C3_Witness ==
    /\ resp.op = "get"
    /\ resp.status = 200
    /\ resp.tid = OidStr(FirstId + 1)
    /\ resp.tid \in DOMAIN pristine
    /\ OidStr(FirstId) \in StoredIds
    /\ OidStr(FirstId) \notin DOMAIN pristine

(***************************************************************************)
(* C4: every request that fails validation is answered 400, issues no      *)
(* store operation and leaves the collection unchanged: a create whose     *)
(* body is absent, empty or lacks the field task, and an update whose body *)
(* is absent, empty or holds neither the field task nor the field          *)
(* completed.                                                              *)
(***************************************************************************)
C4_ValidationFailure ==
    [][((resp'.op = "create" /\
            (AbsentOrEmpty(resp'.data) \/ ~HoldsTask(resp'.data)))
        \/ (resp'.op = "update" /\
            (AbsentOrEmpty(resp'.data)
               \/ (~HoldsTask(resp'.data) /\ ~HoldsCompleted(resp'.data)))))
       => /\ resp'.status = 400
          /\ resp'.ops = 0
          /\ todos' = todos
          /\ nextId' = nextId]_vars

(***************************************************************************)
(* C5: a create whose task is empty fails and inserts nothing: every todo  *)
(* has a non-empty task when create inserts it.                            *)
(***************************************************************************)
C5_TaskNeverEmptyAtCreation ==
    /\ (resp.op = "create" /\ HoldsTask(resp.data) /\ resp.data.task = "") =>
          resp.status \notin {200, 201}
    /\ \A tid \in DOMAIN pristine : pristine[tid] # ""

(***************************************************************************)
(* C6: an update answered 200 changes only the fields its body supplies:   *)
(* an omitted field keeps its value, the id and every other todo are       *)
(* unchanged, and a GET answered 200 returns the document as stored, so    *)
(* the supplied values.                                                    *)
(***************************************************************************)
C6_PartialUpdate ==
    /\ [][resp'.op = "update" /\ resp'.status = 200 =>
            LET oid == ObjectId(resp'.tid)
                d == resp'.data
            IN  /\ oid \in DOMAIN todos
                /\ DOMAIN todos' = DOMAIN todos
                /\ \A j \in DOMAIN todos : j # oid => todos'[j] = todos[j]
                /\ todos'[oid].task =
                      IF d.hasTask THEN d.task ELSE todos[oid].task
                /\ todos'[oid].completed =
                      IF d.hasCompleted THEN d.completed
                      ELSE todos[oid].completed]_vars
    /\ [](resp.op = "get" /\ resp.status = 200 =>
            /\ ObjectId(resp.tid) \in DOMAIN todos
            /\ resp.docs = <<Stored(resp.tid)>>)

\* PUT {completed: true} on a todo with task "a", named by the upper-case
\* text of its id, a second todo next to it
C6_Witness ==
    /\ resp.op = "update"
    /\ resp.status = 200
    /\ resp.tid = AliasTid
    /\ ~resp.data.hasTask
    /\ resp.data.hasCompleted /\ resp.data.completed
    /\ Stored(resp.tid).task = "a"
    /\ Stored(resp.tid).completed
    /\ Cardinality(DOMAIN todos) = 2

(***************************************************************************)
(* C7: a validated update that meets no store failure is answered 200      *)
(* exactly when it changed a field of the matching todo; when no todo      *)
(* matches, or every supplied value equals the stored one, it is answered  *)
(* 404 and the collection is unchanged.                                    *)
(***************************************************************************)
C7_UpdateStatus ==
    [][UpdateStep /\ resp'.status \notin {400, 500} =>
          LET oid == ObjectId(resp'.tid)
              d == resp'.data
              matches == oid \in DOMAIN todos
              same == /\ (d.hasTask => d.task = todos[oid].task)
                      /\ (d.hasCompleted => d.completed = todos[oid].completed)
          IN  /\ resp'.status \in {200, 404}
              /\ resp'.status = 200 <=> (matches /\ todos'[oid] # todos[oid])
              /\ resp'.status = 404 <=> (~matches \/ same)
              /\ resp'.status = 404 => todos' = todos]_vars

\* an update whose values equal the stored ones, answered 404
C7_Witness ==
    /\ resp.op = "update"
    /\ resp.status = 404
    /\ resp.tid \in StoredIds
    /\ resp.data.hasTask /\ resp.data.task = Stored(resp.tid).task
    /\ resp.data.hasCompleted
    /\ resp.data.completed = Stored(resp.tid).completed

(***************************************************************************)
(* C8: a DELETE of an existing todo that meets no store failure is         *)
(* answered 200 and removes that todo alone; from then on a GET and a      *)
(* DELETE of that id that meet no store failure are answered 404, and the  *)
(* repeated DELETE leaves the collection unchanged.                        *)
(***************************************************************************)
C8_DeleteThenNotFound ==
    /\ [][DeleteStep /\ resp'.status # 500 =>
            LET oid == ObjectId(resp'.tid)
            IN  IF oid \in DOMAIN todos
                THEN /\ resp'.status = 200
                     /\ DOMAIN todos' = (DOMAIN todos) \ {oid}
                     /\ \A j \in DOMAIN todos' : todos'[j] = todos[j]
                ELSE /\ resp'.status = 404
                     /\ todos' = todos]_vars
    /\ [](\A tid \in deleted : tid \notin StoredIds)
    /\ [][DeleteStep /\ IdOf(resp'.tid) \in deleted /\ resp'.status # 500 =>
            resp'.status = 404 /\ todos' = todos]_vars
    /\ [](resp.op = "get" /\ IdOf(resp.tid) \in deleted /\ resp.status # 500
            => resp.status = 404)

\* the second DELETE of an id, named by its upper-case text, a todo created
\* after the first still stored
C8_Witness ==
    /\ resp.op = "delete"
    /\ resp.status = 404
    /\ resp.tid = AliasTid
    /\ IdOf(resp.tid) \in deleted
    /\ OidStr(FirstId + 1) \in StoredIds

(***************************************************************************)
(* C9 as stated: in every state of the process and of the store a          *)
(* /healthz request is answered 200.                                       *)
(***************************************************************************)
C9_HealthzInEveryState ==
    /\ ENABLED health_check
    /\ resp.op = "healthz" => resp.status = 200

(***************************************************************************)
(* C9 amended: once init_db has returned, in every state of the store a    *)
(* /healthz request is answered 200 with the fixed payload, without any    *)
(* store operation and without changing the collection; before that, and   *)
(* after a fatal abort, no /healthz request is answered.                   *)
(***************************************************************************)
C9_HealthzWhileServing ==
    /\ [](phase = "serving" <=> ENABLED health_check)
    /\ [](resp.op = "healthz" =>
            resp.status = 200 /\ resp.msg = "ok" /\ resp.ops = 0)
    /\ [][resp'.op = "healthz" => todos' = todos /\ nextId' = nextId]_vars

\* /healthz answered 200 while the store is down and holds a todo
C9_Witness ==
    /\ resp.op = "healthz"
    /\ resp.status = 200
    /\ ~storeUp
    /\ todos # EmptyColl

(***************************************************************************)
(* Helpers of the concurrency properties: the requests answered so far,    *)
(* and their replay one after the other, in a given order, from the        *)
(* collection the concurrent run started with.                             *)
(***************************************************************************)
DoneSet == {i \in DOMAIN reqs : reqs[i].pc = "done"}

Orders(S) ==
    {f \in [1..Cardinality(S) -> S] : \A a, b \in DOMAIN f : a # b => f[a] # f[b]}

Handle(q, coll, nid) ==
    CASE q.op = "create" -> create_todo_result(q.data, coll, nid, TRUE)
      [] q.op = "list" -> get_all_todos_result(coll, nid, TRUE)
      [] q.op = "get" -> get_todo_result(q.tid, coll, nid, TRUE)
      [] q.op = "update" -> update_todo_result(q.tid, q.data, coll, nid, TRUE)
      [] q.op = "delete" -> delete_todo_result(q.tid, coll, nid, TRUE)

\* the responses from the k-th request of the order on, and the final
\* collection, are those of the handlers run one after the other; lists:
\* whether the documents of the list responses are compared too
RECURSIVE Replays(_, _, _, _, _)
Replays(order, k, coll, nid, lists) ==
    IF k > Cardinality(DOMAIN order)
    THEN coll = todos /\ nid = nextId
    ELSE LET q == reqs[order[k]]
             r == Handle(q, coll, nid)
         IN  /\ r.status = q.status
             /\ r.ops = q.ops
             /\ (q.op = "list" /\ ~lists) \/ r.docs = q.docs
             /\ Replays(order, k + 1, r.coll, r.nid, lists)

Serializable(lists) ==
    \E order \in Orders(DoneSet) :
        Replays(order, 1, TwoTodos.coll, TwoTodos.nid, lists)

\* of the DELETEs of a todo stored from the start, exactly one is answered
\* 200 and all others 404
OneDeleteWins ==
    \A tid \in ConcTids :
        LET D == {i \in DoneSet : reqs[i].op = "delete" /\ reqs[i].tid = tid}
        IN  (D # {} /\ ObjectId(tid) \in DOMAIN TwoTodos.coll) =>
               /\ Cardinality({i \in D : reqs[i].status = 200}) = 1
               /\ \A i \in D : reqs[i].status \in {200, 404}

\* the values the requests supplied for a todo
SuppliedTasks(oid) ==
    {reqs[i].data.task : i \in {j \in DOMAIN reqs :
        /\ reqs[j].data.hasTask
        /\ reqs[j].op = "create"
             \/ (reqs[j].op = "update" /\ IdOf(reqs[j].tid) = OidStr(oid))}}
    \cup {TwoTodos.coll[j].task : j \in (DOMAIN TwoTodos.coll) \cap {oid}}

SuppliedFlags(oid) ==
    {reqs[i].data.completed : i \in {j \in DOMAIN reqs :
        /\ reqs[j].data.hasCompleted
        /\ reqs[j].op = "update" /\ IdOf(reqs[j].tid) = OidStr(oid)}}
    \cup {FALSE}

OnlySuppliedValues ==
    \A oid \in DOMAIN todos :
        /\ todos[oid].task \in SuppliedTasks(oid)
        /\ todos[oid].completed \in SuppliedFlags(oid)

\* a request that passes the handler's validation and whose id text parses
Validated(q) ==
    /\ q.op = "create" => HoldsTask(q.data)
    /\ q.op = "update" => (HoldsTask(q.data) \/ HoldsCompleted(q.data))
    /\ q.op \in {"get", "update", "delete"} => IsValidOid(q.tid)

(***************************************************************************)
(* C10 as stated: every handler issues exactly one atomic single-document  *)
(* store operation per request, so under any interleaving every response,  *)
(* the list responses included, and the final collection are those of the  *)
(* same requests handled in some sequential order.                         *)
(***************************************************************************)
C10_AllSerializable ==
    /\ \A i \in DoneSet : reqs[i].ops = 1
    /\ Serializable(TRUE)
    /\ OneDeleteWins
    /\ OnlySuppliedValues

(***************************************************************************)
(* C10 amended: create, get, update and delete each issue at most one      *)
(* atomic single-document store operation per request: exactly one when    *)
(* the request passes validation and its id text parses, none otherwise.   *)
(* So under any interleaving their responses and the final collection are  *)
(* those of the same requests handled in some sequential order; of the     *)
(* DELETEs of one existing id exactly one is answered 200 and the others   *)
(* 404; no field ever holds a value no request supplied.  The list handler *)
(* issues one store call, a read of a multi-document cursor: its status is *)
(* covered, the documents of its response are not.                         *)
(***************************************************************************)
C10_SingleDocSerializable ==
    /\ Serializable(FALSE)
    /\ OneDeleteWins
    /\ OnlySuppliedValues
    /\ \A i \in DoneSet :
          reqs[i].ops = IF Validated(reqs[i]) THEN 1 ELSE 0

\* two DELETEs of the same todo in flight together, answered 200 and 404,
\* an update of that todo answered 200, and an update whose body is a
\* number, answered without a store call
C10_Witness ==
    \E i, j, k, l \in DoneSet :
        /\ reqs[i].op = "delete" /\ reqs[i].status = 404
        /\ reqs[j].op = "delete" /\ reqs[j].status = 200
        /\ reqs[k].op = "update" /\ reqs[k].status = 200
        /\ reqs[l].op = "update" /\ reqs[l].data = ScalarBody
        /\ reqs[l].ops = 0

====
